---- MODULE Spec2Model ----
(***************************************************************************)
(* TalentScout Hiring Assistant (src/app.py) as a state machine.           *)
(*                                                                         *)
(* The program is a Streamlit script: every user interaction with one      *)
(* widget reruns the whole script top to bottom against st.session_state.  *)
(* One step of the model is one such rerun.  The widget that caused it is  *)
(* one of those drawn on the page by the previous run; the script reacts   *)
(* to it only if the run reaches the call that creates the widget.         *)
(*                                                                         *)
(* A Python str is modelled as the sequence of its characters, each a      *)
(* one-character string; a character outside ASCII, and the backquote,    *)
(* is written by its code point, "U+XXXX".                                 *)
(***************************************************************************)
EXTENDS Integers, Sequences, FiniteSets, TLC

(***************************************************************************)
(* Python str operations used by the script                                *)
(***************************************************************************)
UPPERCASE ==
  << "A", "B", "C", "D", "E", "F", "G", "H", "I", "J", "K", "L", "M",
     "N", "O", "P", "Q", "R", "S", "T", "U", "V", "W", "X", "Y", "Z" >>

LOWERCASE ==
  << "a", "b", "c", "d", "e", "f", "g", "h", "i", "j", "k", "l", "m",
     "n", "o", "p", "q", "r", "s", "t", "u", "v", "w", "x", "y", "z" >>

WHITESPACE == {" ", "\n", "\t", "\r"}

DIGITS == {"0", "1", "2", "3", "4", "5", "6", "7", "8", "9"}

lower_char(c) ==
  IF \E i \in DOMAIN UPPERCASE : UPPERCASE[i] = c
  THEN LOWERCASE[CHOOSE i \in DOMAIN UPPERCASE : UPPERCASE[i] = c]
  ELSE c

\* str.lower()
lower(text) == [i \in 1..Len(text) |-> lower_char(text[i])]

\* k in text
Contains(text, k) ==
  \E i \in 0..(Len(text) - Len(k)) : SubSeq(text, i + 1, i + Len(k)) = k

\* text.endswith(suffix)
endswith(text, suffix) ==
  /\ Len(text) >= Len(suffix)
  /\ SubSeq(text, Len(text) - Len(suffix) + 1, Len(text)) = suffix

\* text.isdigit()
isdigit(text) == Len(text) > 0 /\ \A i \in 1..Len(text) : text[i] \in DIGITS

\* text.strip()
strip(text) ==
  LET kept == {i \in 1..Len(text) : text[i] \notin WHITESPACE}
  IN  IF kept = {} THEN << >>
      ELSE SubSeq(text,
                  CHOOSE i \in kept : \A j \in kept : i <= j,
                  CHOOSE i \in kept : \A j \in kept : i >= j)

(***************************************************************************)
(* String constants of the script                                          *)
(***************************************************************************)
\* app.py:78
END_KEYWORDS ==
  << <<"b", "y", "e">>,
     <<"g", "o", "o", "d", "b", "y", "e">>,
     <<"q", "u", "i", "t">>,
     <<"e", "x", "i", "t">>,
     <<"s", "t", "o", "p">>,
     <<"t", "h", "a", "n", "k", " ", "y", "o", "u">>,
     <<"t", "h", "a", "n", "k", "s">> >>

\* app.py:81-88
KNOWN_TECH_KEYWORDS ==
  << <<"p", "y", "t", "h", "o", "n">>,
     <<"j", "a", "v", "a">>,
     <<"j", "a", "v", "a", "s", "c", "r", "i", "p", "t">>,
     <<"t", "y", "p", "e", "s", "c", "r", "i", "p", "t">>,
     <<"r", "e", "a", "c", "t">>,
     <<"a", "n", "g", "u", "l", "a", "r">>,
     <<"v", "u", "e">>,
     <<"n", "o", "d", "e">>,
     <<"d", "j", "a", "n", "g", "o">>,
     <<"f", "l", "a", "s", "k">>,
     <<"s", "p", "r", "i", "n", "g">>,
     <<"f", "l", "u", "t", "t", "e", "r">>,
     <<"k", "o", "t", "l", "i", "n">>,
     <<"s", "w", "i", "f", "t">>,
     <<"h", "t", "m", "l">>,
     <<"c", "s", "s">>,
     <<"t", "a", "i", "l", "w", "i", "n", "d">>,
     <<"b", "o", "o", "t", "s", "t", "r", "a", "p">>,
     <<"s", "q", "l">>,
     <<"m", "y", "s", "q", "l">>,
     <<"p", "o", "s", "t", "g", "r", "e", "s">>,
     <<"m", "o", "n", "g", "o", "d", "b">>,
     <<"r", "e", "d", "i", "s">>,
     <<"n", "l", "p">>,
     <<"c", "o", "m", "p", "u", "t", "e", "r", " ", "v", "i", "s", "i", "o", "n">>,
     <<"c", "v">>,
     <<"p", "y", "t", "o", "r", "c", "h">>,
     <<"t", "e", "n", "s", "o", "r", "f", "l", "o", "w">>,
     <<"s", "k", "l", "e", "a", "r", "n">>,
     <<"s", "c", "i", "k", "i", "t">>,
     <<"d", "o", "c", "k", "e", "r">>,
     <<"k", "u", "b", "e", "r", "n", "e", "t", "e", "s">>,
     <<"a", "w", "s">>,
     <<"a", "z", "u", "r", "e">>,
     <<"g", "c", "p">>,
     <<"l", "i", "n", "u", "x">>,
     <<"b", "a", "s", "h">>,
     <<"g", "i", "t">> >>

\* app.py:90-93
OUT_OF_SCOPE_KEYWORDS ==
  << <<"s", "t", "o", "r", "y">>,
     <<"j", "o", "k", "e">>,
     <<"p", "o", "e", "m">>,
     <<"s", "o", "n", "g">>,
     <<"l", "y", "r", "i", "c", "s">>,
     <<"w", "e", "a", "t", "h", "e", "r">>,
     <<"n", "e", "w", "s">>,
     <<"m", "o", "v", "i", "e">>,
     <<"g", "a", "m", "e", "s">>,
     <<"t", "i", "m", "e", " ", "p", "a", "s", "s">> >>

\* app.py:119-130, the literal before .strip()
FALLBACK_TEXT ==
  << "\n", "#", "#", "#", " ", "G", "e", "n", "e", "r", "a", "l", "\n", "\n",
     "1", ".", " ", "T", "e", "l", "l", " ", "m", "e", " ", "a", "b", "o",
     "u", "t", " ", "a", " ", "r", "e", "c", "e", "n", "t", " ", "p", "r",
     "o", "j", "e", "c", "t", " ", "y", "o", "u", " ", "w", "o", "r", "k",
     "e", "d", " ", "o", "n", " ", "a", "n", "d", " ", "w", "h", "a", "t",
     " ", "y", "o", "u", "r", " ", "r", "o", "l", "e", " ", "w", "a", "s",
     ".", "\n", "2", ".", " ", "H", "o", "w", " ", "d", "o", " ", "y", "o",
     "u", " ", "u", "s", "u", "a", "l", "l", "y", " ", "d", "e", "b", "u",
     "g", " ", "a", "n", "d", " ", "f", "i", "x", " ", "t", "r", "i", "c",
     "k", "y", " ", "i", "s", "s", "u", "e", "s", " ", "i", "n", " ", "y",
     "o", "u", "r", " ", "c", "o", "d", "e", "?", "\n", "3", ".", " ", "H",
     "o", "w", " ", "d", "o", " ", "y", "o", "u", " ", "k", "e", "e", "p",
     " ", "y", "o", "u", "r", "s", "e", "l", "f", " ", "u", "p", "d", "a",
     "t", "e", "d", " ", "w", "i", "t", "h", " ", "n", "e", "w", " ", "t",
     "o", "o", "l", "s", ",", " ", "f", "r", "a", "m", "e", "w", "o", "r",
     "k", "s", ",", " ", "o", "r", " ", "l", "i", "b", "r", "a", "r", "i",
     "e", "s", "?", "\n", "4", ".", " ", "D", "e", "s", "c", "r", "i", "b",
     "e", " ", "a", " ", "s", "i", "t", "u", "a", "t", "i", "o", "n", " ",
     "w", "h", "e", "r", "e", " ", "y", "o", "u", " ", "h", "a", "d", " ",
     "t", "o", " ", "l", "e", "a", "r", "n", " ", "a", " ", "n", "e", "w",
     " ", "t", "e", "c", "h", "n", "o", "l", "o", "g", "y", " ", "q", "u",
     "i", "c", "k", "l", "y", ".", "\n", "\n", "*", "*", "M", "i", "n", "i",
     " ", "A", "s", "s", "i", "g", "n", "m", "e", "n", "t", ":", "*", "*",
     " ", " ", "\n", "P", "i", "c", "k", " ", "o", "n", "e", " ", "o", "f",
     " ", "y", "o", "u", "r", " ", "p", "a", "s", "t", " ", "p", "r", "o",
     "j", "e", "c", "t", "s", " ", "a", "n", "d", " ", "r", "e", "f", "a",
     "c", "t", "o", "r", " ", "i", "t", " ", "t", "o", " ", "i", "m", "p",
     "r", "o", "v", "e", " ", "c", "o", "d", "e", " ", "r", "e", "a", "d",
     "a", "b", "i", "l", "i", "t", "y", " ", "a", "n", "d", " ", "s", "t",
     "r", "u", "c", "t", "u", "r", "e", ".", " ", " ", "\n", "W", "r", "i",
     "t", "e", " ", "d", "o", "w", "n", " ", "w", "h", "a", "t", " ", "y",
     "o", "u", " ", "i", "m", "p", "r", "o", "v", "e", "d", " ", "a", "n",
     "d", " ", "w", "h", "y", ".", "\n", " ", " ", " ", " " >>

\* app.py:164
USER_PROMPT_PREFIX ==
  << "C", "a", "n", "d", "i", "d", "a", "t", "e", " ", "t", "e", "c", "h",
     " ", "s", "t", "a", "c", "k", ":", " " >>

\* app.py:203-206
NO_CLIENT_REPLY ==
  << "I", " ", "c", "a", "n", "U+2019", "t", " ", "c", "a", "l", "l", " ",
     "t", "h", "e", " ", "A", "I", " ", "m", "o", "d", "e", "l", " ", "r",
     "i", "g", "h", "t", " ", "n", "o", "w", ",", " ", "b", "u", "t", " ",
     "y", "o", "u", " ", "c", "a", "n", " ", "s", "t", "i", "l", "l", " ",
     "u", "s", "e", " ", "t", "h", "e", " ", "q", "u", "e", "s", "t", "i",
     "o", "n", "s", " ", "a", "b", "o", "v", "e", " ", "t", "o", " ", "p",
     "r", "a", "c", "t", "i", "c", "e", " ", "o", "n", " ", "y", "o", "u",
     "r", " ", "o", "w", "n", ".", " ", "U+1F60A" >>

\* app.py:229-239, the text of user_context before {tech_stack}
CONTEXT_TECH ==
  << "\n", "C", "a", "n", "d", "i", "d", "a", "t", "e", " ", "t", "e", "c",
     "h", " ", "s", "t", "a", "c", "k", ":", " " >>

\* app.py:229-239, between {tech_stack} and {questions_md}
CONTEXT_SET ==
  << "\n", "\n", "P", "r", "a", "c", "t", "i", "c", "e", " ", "s", "e", "t",
     " ", "y", "o", "u", " ", "a", "l", "r", "e", "a", "d", "y", " ", "g",
     "e", "n", "e", "r", "a", "t", "e", "d", ":", "\n", "\n" >>

\* app.py:229-239, between {questions_md} and {user_input}
CONTEXT_ASKED ==
  << "\n", "\n", "C", "a", "n", "d", "i", "d", "a", "t", "e", " ", "j", "u",
     "s", "t", " ", "a", "s", "k", "e", "d", ":", "\n", "\n" >>

\* app.py:229-239, after {user_input}
CONTEXT_END ==
  << "\n" >>

\* app.py:252-256, the text before {type(e).__name__}
FOLLOWUP_ERROR_HEAD ==
  << "S", "o", "m", "e", "t", "h", "i", "n", "g", " ", "w", "e", "n", "t",
     " ", "w", "r", "o", "n", "g", " ", "w", "h", "i", "l", "e", " ", "g",
     "e", "n", "e", "r", "a", "t", "i", "n", "g", " ", "a", " ", "r", "e",
     "s", "p", "o", "n", "s", "e", ",", " ", "b", "u", "t", " ", "y", "o",
     "u", " ", "c", "a", "n", " ", "s", "t", "i", "l", "l", " ", "u", "s",
     "e", " ", "t", "h", "e", " ", "q", "u", "e", "s", "t", "i", "o", "n",
     "s", " ", "a", "b", "o", "v", "e", " ", "t", "o", " ", "p", "r", "a",
     "c", "t", "i", "c", "e", ".", " ", "(", "E", "r", "r", "o", "r", ":",
     " " >>

\* app.py:252-256, the text after {type(e).__name__}
FOLLOWUP_ERROR_TAIL ==
  << ")" >>

\* app.py:349-353
GREETING ==
  << "H", "e", "y", " ", "t", "h", "e", "r", "e", "!", " ", "U+1F44B", "\n",
     "\n", "I", "U+2019", "m", " ", "y", "o", "u", "r", " ", "*", "*", "T",
     "a", "l", "e", "n", "t", "S", "c", "o", "u", "t", " ", "H", "i", "r",
     "i", "n", "g", " ", "A", "s", "s", "i", "s", "t", "a", "n", "t", "*",
     "*", ".", "\n", "\n", "F", "i", "l", "l", " ", "o", "u", "t", " ", "y",
     "o", "u", "r", " ", "b", "a", "s", "i", "c", " ", "d", "e", "t", "a",
     "i", "l", "s", " ", "b", "e", "l", "o", "w", ",", " ", "a", "n", "d",
     " ", "I", "U+2019", "l", "l", " ", "g", "e", "n", "e", "r", "a", "t",
     "e", " ", "*", "*", "p", "r", "a", "c", "t", "i", "c", "e", " ", "i",
     "n", "t", "e", "r", "v", "i", "e", "w", " ", "q", "u", "e", "s", "t",
     "i", "o", "n", "s", "*", "*", " ", "a", "n", "d", " ", "*", "*", "m",
     "i", "n", "i", " ", "a", "s", "s", "i", "g", "n", "m", "e", "n", "t",
     "s", "*", "*", " ", "t", "a", "i", "l", "o", "r", "e", "d", " ", "t",
     "o", " ", "y", "o", "u", "r", " ", "t", "e", "c", "h", " ", "s", "t",
     "a", "c", "k", "." >>

\* app.py:460-461, before {full_name}
GOT_IT_HEAD ==
  << "G", "o", "t", " ", "i", "t", ",", " ", "*", "*" >>

\* app.py:460-461, between {full_name} and {tech_stack}
GOT_IT_MID ==
  << "*", "*", "!", " ", "I", "U+2019", "l", "l", " ", "g", "e", "n", "e",
     "r", "a", "t", "e", " ", "a", " ", "p", "r", "a", "c", "t", "i", "c",
     "e", " ", "s", "e", "t", " ", "b", "a", "s", "e", "d", " ", "o", "n",
     " ", "y", "o", "u", "r", " ", "t", "e", "c", "h", " ", "s", "t", "a",
     "c", "k", ":", " ", "U+0060" >>

\* app.py:460-461, after {tech_stack}
GOT_IT_TAIL ==
  << "U+0060", "." >>

\* app.py:496-504
goodbye ==
  << "Y", "o", "u", "U+2019", "r", "e", " ", "w", "e", "l", "c", "o", "m",
     "e", "!", " ", "U+1F4AB", "\n", "\n", "A", "l", "l", " ", "t", "h", "e",
     " ", "b", "e", "s", "t", " ", "f", "o", "r", " ", "y", "o", "u", "r",
     " ", "i", "n", "t", "e", "r", "v", "i", "e", "w", "s", " ", "U+2014",
     " ", "y", "o", "u", "U+2019", "v", "e", " ", "g", "o", "t", " ", "t",
     "h", "i", "s", ".", " ", "U+1F680", "\n", "Q", "u", "i", "c", "k", " ",
     "t", "i", "p", "s", " ", "b", "e", "f", "o", "r", "e", " ", "y", "o",
     "u", " ", "g", "o", ":", "\n", "-", " ", "P", "r", "a", "c", "t", "i",
     "c", "e", " ", "a", "n", "s", "w", "e", "r", "i", "n", "g", " ", "o",
     "u", "t", " ", "l", "o", "u", "d", "\n", "-", " ", "T", "i", "m", "e",
     " ", "y", "o", "u", "r", "s", "e", "l", "f", " ", "f", "o", "r", " ",
     "e", "a", "c", "h", " ", "q", "u", "e", "s", "t", "i", "o", "n", "\n",
     "-", " ", "N", "o", "t", "e", " ", "d", "o", "w", "n", " ", "g", "a",
     "p", "s", " ", "a", "n", "d", " ", "r", "e", "v", "i", "s", "e", " ",
     "t", "h", "o", "s", "e", " ", "t", "o", "p", "i", "c", "s", "\n", "\n",
     "S", "e", "e", " ", "y", "o", "u", " ", "s", "o", "o", "n", ",", " ",
     "a", "n", "d", " ", "g", "o", "o", "d", " ", "l", "u", "c", "k", "!",
     " ", "U+1F340" >>

\* app.py:512-513
WRAPPED_UP_NOTICE ==
  << "T", "h", "i", "s", " ", "s", "e", "s", "s", "i", "o", "n", " ", "i",
     "s", " ", "a", "l", "r", "e", "a", "d", "y", " ", "w", "r", "a", "p",
     "p", "e", "d", " ", "u", "p", ".", " ", "R", "e", "f", "r", "e", "s",
     "h", " ", "t", "h", "e", " ", "p", "a", "g", "e", " ", "i", "f", " ",
     "y", "o", "u", "U+2019", "d", " ", "l", "i", "k", "e", " ", "t", "o",
     " ", "s", "t", "a", "r", "t", " ", "a", " ", "f", "r", "e", "s", "h",
     " ", "p", "r", "a", "c", "t", "i", "c", "e", " ", "r", "u", "n", ".",
     " ", "U+1F501" >>

\* app.py:519-520
FILL_FORM_FIRST ==
  << "F", "i", "r", "s", "t", ",", " ", "p", "l", "e", "a", "s", "e", " ",
     "f", "i", "l", "l", " ", "o", "u", "t", " ", "t", "h", "e", " ", "f",
     "o", "r", "m", " ", "a", "b", "o", "v", "e", " ", "s", "o", " ", "I",
     " ", "c", "a", "n", " ", "u", "n", "d", "e", "r", "s", "t", "a", "n",
     "d", " ", "y", "o", "u", "r", " ", "p", "r", "o", "f", "i", "l", "e",
     ".", " ", "T", "h", "e", "n", " ", "I", "U+2019", "l", "l", " ", "g",
     "e", "n", "e", "r", "a", "t", "e", " ", "p", "r", "a", "c", "t", "i",
     "c", "e", " ", "q", "u", "e", "s", "t", "i", "o", "n", "s", " ", "f",
     "o", "r", " ", "y", "o", "u", ".", " ", "U+1F4DD" >>

\* app.py:528-534
OUT_OF_SCOPE_REPLY ==
  << "I", "U+2019", "m", " ", "n", "o", "t", " ", "t", "r", "a", "i", "n",
     "e", "d", " ", "f", "o", "r", " ", "t", "h", "a", "t", " ", "y", "e",
     "t", " ", "U+1F916", "\n", "\n", "R", "i", "g", "h", "t", " ", "n", "o",
     "w", " ", "I", " ", "o", "n", "l", "y", " ", "k", "n", "o", "w", " ",
     "h", "o", "w", " ", "t", "o", " ", "h", "e", "l", "p", " ", "w", "i",
     "t", "h", " ", "*", "*", "i", "n", "t", "e", "r", "v", "i", "e", "w",
     " ", "p", "r", "e", "p", "a", "r", "a", "t", "i", "o", "n", "*", "*",
     " ", "U+2013", " ", "y", "o", "u", "r", " ", "t", "e", "c", "h", " ",
     "s", "t", "a", "c", "k", ",", " ", "c", "o", "n", "c", "e", "p", "t",
     "s", ",", " ", "a", "n", "d", " ", "h", "o", "w", " ", "t", "o", " ",
     "a", "n", "s", "w", "e", "r", " ", "q", "u", "e", "s", "t", "i", "o",
     "n", "s", ".", "\n", "\n", "I", "f", " ", "y", "o", "u", " ", "n", "e",
     "e", "d", " ", "h", "e", "l", "p", ",", " ", "t", "r", "y", " ", "a",
     "s", "k", "i", "n", "g", " ", "t", "h", "i", "n", "g", "s", " ", "l",
     "i", "k", "e", ":", "\n", "-", " ", "\"", "C", "a", "n", " ", "y", "o",
     "u", " ", "e", "x", "p", "l", "a", "i", "n", " ", "q", "u", "e", "s",
     "t", "i", "o", "n", " ", "2", " ", "i", "n", " ", "s", "i", "m", "p",
     "l", "e", " ", "w", "o", "r", "d", "s", "?", "\"", "\n", "-", " ", "\"",
     "H", "o", "w", " ", "s", "h", "o", "u", "l", "d", " ", "I", " ", "s",
     "t", "r", "u", "c", "t", "u", "r", "e", " ", "a", "n", " ", "a", "n",
     "s", "w", "e", "r", " ", "a", "b", "o", "u", "t", " ", "O", "O", "P",
     "?", "\"", "\n", "-", " ", "\"", "W", "h", "a", "t", " ", "t", "o", "p",
     "i", "c", "s", " ", "s", "h", "o", "u", "l", "d", " ", "I", " ", "r",
     "e", "v", "i", "s", "e", " ", "f", "o", "r", " ", "t", "h", "i", "s",
     " ", "t", "e", "c", "h", " ", "s", "t", "a", "c", "k", "?", "\"" >>
\* app.py:433
GMAIL_SUFFIX == <<"@", "g", "m", "a", "i", "l", ".", "c", "o", "m">>

\* app.py:182
SECTION_MARKER == <<"#", "#", "#">>

\* app.py:117-130
_generic_fallback_markdown == strip(FALLBACK_TEXT)

\* Variant: the text is searched as typed, without lower().  C17 fails for
\* it.
is_end_keyword_case_sensitive(text) ==
  \E i \in DOMAIN END_KEYWORDS : Contains(text, END_KEYWORDS[i])

\* app.py:96-98
is_end_keyword(text) ==
  \E lowered \in {lower(text)} :
     \E i \in DOMAIN END_KEYWORDS : Contains(lowered, END_KEYWORDS[i])

\* app.py:101-103
looks_like_tech_stack(text) ==
  \E t \in {lower(text)} :
     \E i \in DOMAIN KNOWN_TECH_KEYWORDS : Contains(t, KNOWN_TECH_KEYWORDS[i])

\* app.py:524-525
is_out_of_scope(text) ==
  \E lower_q \in {lower(text)} :
     \E i \in DOMAIN OUT_OF_SCOPE_KEYWORDS :
        Contains(lower_q, OUT_OF_SCOPE_KEYWORDS[i])

(***************************************************************************)
(* State                                                                   *)
(***************************************************************************)
VARIABLES
  view,              \* st.session_state.view
  stage,             \* st.session_state.stage
  history_messages,  \* st.session_state.history_messages
  chat_messages,     \* st.session_state.chat_messages
  candidate,         \* st.session_state.candidate
  latest_questions,  \* st.session_state.latest_questions
  show_contact,      \* st.session_state.show_contact
  client,            \* the module-level Groq client, or None
  rendered,          \* the widgets the last run drew on the page
  notices,           \* the st.warning / st.error / st.success of the last run
  trigger,           \* the widget interaction that caused the last run
  handled,           \* the widget handler the last run executed
  request,           \* the user prompt of the last run's remote call
  response,          \* what the last run's remote call did
  gen_calls,         \* calls of generate_technical_questions_markdown
  followup_calls,    \* calls of answer_followup
  net_calls,         \* calls of client.chat.completions.create
  seen_questions     \* stage has been assigned "questions"

vars ==
  << view, stage, history_messages, chat_messages, candidate,
     latest_questions, show_contact, client, rendered, notices, trigger,
     handled, request, response, gen_calls, followup_calls, net_calls, seen_questions >>

\* Python's empty dict (app.py:70) and empty str (app.py:73)
EMPTY_DICT == << >>

EMPTY_STR == << >>

(***************************************************************************)
(* Inputs: what the user types and what the remote service answers         *)
(***************************************************************************)
\* bounds of the exploration
MaxSubmits == 2

MaxChat == 2

NAME_ANN == <<"A", "n", "n">>

EMAIL_YAHOO == <<"u", "s", "e", "r", "@", "y", "a", "h", "o", "o", ".", "c", "o", "m">>

EMAIL_GMAIL_CAPS == <<"A", "n", "n", "@", "G", "M", "A", "I", "L", ".", "C", "o", "m">>

PHONE_OK == <<"1", "2", "3", "4", "5", "6", "7", "8", "9", "0">>

PHONE_SHORT == <<"1", "2", "3", "4", "5", "6", "7", "8", "9">>

PHONE_LETTERS == <<"1", "2", "3", "4", "5", "a", "b", "c", "d", "e">>

TECH_JAVA_DOCKER == <<"J", "a", "v", "a", ",", " ", "D", "o", "c", "k", "e", "r">>

TECH_SQL == <<"s", "q", "l">>

TECH_COOKING == <<"c", "o", "o", "k", "i", "n", "g">>

POSITION_DEV == <<"D", "e", "v">>

LOCATION_PUNE == <<"P", "u", "n", "e">>

CHAT_HI == <<"h", "i", "?">>

CHAT_BYE == <<"B", "y", "e">>

CHAT_JOKE == <<"a", " ", "J", "o", "k", "e">>

CHAT_JOKE_THANKS == <<"j", "o", "k", "e", ",", " ", "t", "h", "a", "n", "k", "s">>

ANSWER_SECTIONS == <<" ", "#", "#", "#", " ", "J", "a", "v", "a", "\n">>

ANSWER_PLAIN == <<"S", "u", "r", "e", "!">>

ANSWER_BLANK == <<" ", "\n">>

RATE_LIMIT_ERROR ==
  <<"R", "a", "t", "e", "L", "i", "m", "i", "t", "E", "r", "r", "o", "r">>

INDEX_ERROR == <<"I", "n", "d", "e", "x", "E", "r", "r", "o", "r">>

Names == {EMPTY_STR, NAME_ANN}

Emails == {EMPTY_STR, EMAIL_YAHOO, EMAIL_GMAIL_CAPS}

Phones == {EMPTY_STR, PHONE_OK, PHONE_SHORT, PHONE_LETTERS}

TechStacks == {EMPTY_STR, TECH_COOKING, TECH_JAVA_DOCKER, TECH_SQL}

\* The values of the candidate form's widgets (app.py:409-420); years_exp
\* counts the number_input's steps of 0.5.
AllForms ==
  [full_name : Names, email : Emails, phone : Phones, years_exp : {3},
   desired_pos : {POSITION_DEV}, location : {LOCATION_PUNE},
   tech_stack : TechStacks]

\* two forms that pass every check of app.py:426-444
FORM_OK ==
  [full_name |-> NAME_ANN, email |-> EMAIL_GMAIL_CAPS, phone |-> PHONE_OK,
   years_exp |-> 3, desired_pos |-> POSITION_DEV, location |-> LOCATION_PUNE,
   tech_stack |-> TECH_JAVA_DOCKER]

FORM_OK_NO_PHONE ==
  [FORM_OK EXCEPT !.phone = EMPTY_STR, !.tech_stack = TECH_SQL]

\* The forms of the session flows: the two above, and FORM_OK with one
\* field changed so that one check fails.
Forms ==
  {FORM_OK, FORM_OK_NO_PHONE,
   [FORM_OK EXCEPT !.full_name = EMPTY_STR],
   [FORM_OK EXCEPT !.email = EMPTY_STR],
   [FORM_OK EXCEPT !.email = EMAIL_YAHOO],
   [FORM_OK EXCEPT !.phone = PHONE_SHORT],
   [FORM_OK EXCEPT !.phone = PHONE_LETTERS],
   [FORM_OK EXCEPT !.tech_stack = EMPTY_STR],
   [FORM_OK EXCEPT !.tech_stack = TECH_COOKING]}

\* the values of the contact form's widgets (app.py:270-272)
ContactForms ==
  {[name |-> NAME_ANN, email |-> EMAIL_YAHOO, message |-> CHAT_HI],
   [name |-> NAME_ANN, email |-> EMAIL_YAHOO, message |-> EMPTY_STR]}

\* st.chat_input submits non-empty text only
ChatTexts == {CHAT_HI, CHAT_BYE, CHAT_JOKE, CHAT_JOKE_THANKS}

\* Chat texts around the closing phrases: each phrase in some mix of upper
\* and lower case, alone, in a sentence or inside a word, and texts that
\* miss a phrase by a letter or a space.
CHAT_NONSTOP == << "n", "o", "n", "S", "T", "O", "P", "." >>

CHAT_THANK_TWO_SPACES == << "t", "h", "a", "n", "k", " ", " ", "y", "o", "u" >>

AllChatTexts ==
  ChatTexts \cup {CHAT_NONSTOP, CHAT_THANK_TWO_SPACES} \cup
  {<< "b", "y", "e" >>,
   << "G", "O", "O", "D", "B", "Y", "E" >>,
   << "Q", "u", "i", "t" >>,
   << "e", "X", "i", "t" >>,
   << "S", "T", "O", "P" >>,
   << "T", "h", "a", "n", "k", " ", "Y", "o", "u" >>,
   << "t", "h", "a", "n", "k", "s" >>,
   << "B", "y", "e", "-", "b", "y", "e", "!" >>,
   << "I", " ", "q", "u", "i", "t" >>,
   << "e", "x", "i", "t", "s" >>,
   << "T", "H", "A", "N", "K", "S", " ", "a", " ", "l", "o", "t" >>,
   << "b", "y", " ", "e" >>,
   << "g", "o", "o", "d" >>,
   << "q", "u", "i", " ", "t" >>,
   << "e", "x", "i" >>,
   << "s", "t", "o", " ", "p" >>,
   << "t", "h", "a", "n", "k", "y", "o", "u" >>,
   << "t", "h", "a", "n", " ", "k", "s" >>,
   << "t", "h", "a", "n", "k" >>,
   << "B", " ", "Y", " ", "E" >>}

\* What client.chat.completions.create and the reading of
\* resp.choices[0].message.content do: raise an exception of some type (an
\* API error; IndexError on a response without choices), or yield the text.
Outcomes ==
  [kind : {"raise"}, etype : {RATE_LIMIT_ERROR, INDEX_ERROR},
   content : {EMPTY_STR}]
  \cup
  [kind : {"ok"}, etype : {EMPTY_STR},
   content : {ANSWER_SECTIONS, ANSWER_PLAIN, ANSWER_BLANK}]

NO_FORM ==
  [full_name |-> EMPTY_STR, email |-> EMPTY_STR, phone |-> EMPTY_STR,
   years_exp |-> 0, desired_pos |-> EMPTY_STR, location |-> EMPTY_STR,
   tech_stack |-> EMPTY_STR]

NO_CONTACT == [name |-> EMPTY_STR, email |-> EMPTY_STR, message |-> EMPTY_STR]

\* the run makes no remote call: any outcome will do
NO_OUTCOME == [kind |-> "ok", etype |-> EMPTY_STR, content |-> EMPTY_STR]

\* a widget interaction: the widget and the values that come with it
Click(w) ==
  [widget |-> w, form |-> NO_FORM, contact |-> NO_CONTACT, text |-> EMPTY_STR]

(***************************************************************************)
(* The script.  Its operators take and return the record s: the session    *)
(* state as the run has changed it so far, what the run has drawn and      *)
(* surfaced, and the calls made so far.                                    *)
(***************************************************************************)
\* app.py:16-22: without a key, every run starts with the warning that
\* GROQ_API_KEY is not set
startup_notices ==
  IF client = "None" THEN << "api_key_not_set" >> ELSE << >>

Session ==
  [view |-> view, stage |-> stage, history_messages |-> history_messages,
   chat_messages |-> chat_messages, candidate |-> candidate,
   latest_questions |-> latest_questions, show_contact |-> show_contact,
   rendered |-> {}, notices |-> startup_notices, handled |-> "none",
   request |-> EMPTY_STR, response |-> NO_OUTCOME, gen_calls |-> gen_calls,
   followup_calls |-> followup_calls, net_calls |-> net_calls,
   seen_questions |-> seen_questions]

\* Variant: the new turn is put in front of the log.  C11 fails for it.
add_history_prepending(s, role, content) ==
  [s EXCEPT !.history_messages =
              << [role |-> role, content |-> content] >> \o @]

add_history(s, role, content) ==
  [s EXCEPT !.history_messages =
              Append(@, [role |-> role, content |-> content])]

add_chat(s, role, content) ==
  [s EXCEPT !.chat_messages = Append(@, [role |-> role, content |-> content])]

\* st.warning, st.error, st.success: a notice on the page of this run
notice(s, id) == [s EXCEPT !.notices = Append(@, id)]

\* the run reaches the call that creates widget w
widget(s, w) == [s EXCEPT !.rendered = @ \cup {w}]

\* the widget of this run's interaction returns its value to the script
fired(s, w) == [s EXCEPT !.handled = w]

\* the remote call: counted, its user prompt and its outcome recorded
create(s, user_prompt, o) ==
  [s EXCEPT !.net_calls = @ + 1, !.request = user_prompt, !.response = o]

\* Variant: a failed remote call yields the name of the exception instead
\* of the fallback.  C14 fails for it.
generate_surfacing_error(s, tech_stack, o) ==
  LET s1 == [s EXCEPT !.gen_calls = @ + 1]
      user_prompt == USER_PROMPT_PREFIX \o tech_stack
  IN  IF client = "None"
      THEN [s |-> notice(s1, "no_api_key"),
            result |-> _generic_fallback_markdown]
      ELSE LET s2 == create(s1, user_prompt, o)
           IN  IF o.kind = "raise"
               THEN [s |-> notice(s2, "api_call_failed"), result |-> o.etype]
               ELSE LET content == strip(o.content)
                    IN  IF ~Contains(content, SECTION_MARKER)
                        THEN [s |-> notice(s2, "unexpected_format"),
                              result |-> _generic_fallback_markdown]
                        ELSE [s |-> s2, result |-> content]

\* Variant: the response is returned without the check for the section
\* marker.  C8 fails for it.
generate_without_marker_check(s, tech_stack, o) ==
  LET s1 == [s EXCEPT !.gen_calls = @ + 1]
      user_prompt == USER_PROMPT_PREFIX \o tech_stack
  IN  IF client = "None"
      THEN [s |-> notice(s1, "no_api_key"),
            result |-> _generic_fallback_markdown]
      ELSE LET s2 == create(s1, user_prompt, o)
           IN  IF o.kind = "raise"
               THEN [s |-> notice(s2, "api_call_failed"),
                     result |-> _generic_fallback_markdown]
               ELSE [s |-> s2, result |-> strip(o.content)]

generate_technical_questions_markdown(s, tech_stack, o) ==
  LET s1 == [s EXCEPT !.gen_calls = @ + 1]
      user_prompt == USER_PROMPT_PREFIX \o tech_stack
  IN  IF client = "None"
      THEN [s |-> notice(s1, "no_api_key"),
            result |-> _generic_fallback_markdown]
      ELSE LET s2 == create(s1, user_prompt, o)
           IN  IF o.kind = "raise"
               THEN [s |-> notice(s2, "api_call_failed"),
                     result |-> _generic_fallback_markdown]
               ELSE LET content == strip(o.content)
                    IN  IF ~Contains(content, SECTION_MARKER)
                        THEN [s |-> notice(s2, "unexpected_format"),
                              result |-> _generic_fallback_markdown]
                        ELSE [s |-> s2, result |-> content]

NOT_AVAILABLE == <<"N", "/", "A">>

NO_QUESTIONS ==
  <<"N", "o", " ", "q", "u", "e", "s", "t", "i", "o", "n", "s", ".">>

\* Variant: a failed remote call is answered with the fallback of the
\* question generation.  C15 fails for it.
answer_followup_generic_fallback(s, user_input, o) ==
  LET s1 == [s EXCEPT !.followup_calls = @ + 1]
  IN  IF client = "None"
      THEN [s |-> s1, result |-> NO_CLIENT_REPLY]
      ELSE LET tech_stack ==
                 IF "tech_stack" \in DOMAIN s.candidate
                 THEN s.candidate.tech_stack ELSE NOT_AVAILABLE
               questions_md ==
                 IF Len(s.latest_questions) > 0
                 THEN s.latest_questions ELSE NO_QUESTIONS
               user_context ==
                 CONTEXT_TECH \o tech_stack \o CONTEXT_SET \o questions_md
                   \o CONTEXT_ASKED \o user_input \o CONTEXT_END
               s2 == create(s1, user_context, o)
           IN  IF o.kind = "raise"
               THEN [s |-> s2, result |-> _generic_fallback_markdown]
               ELSE [s |-> s2, result |-> strip(o.content)]

\* Variant: no test of client before the remote call.  C13 fails for it.
answer_followup_unguarded(s, user_input, o) ==
  LET s1 == [s EXCEPT !.followup_calls = @ + 1]
      tech_stack ==
        IF "tech_stack" \in DOMAIN s.candidate
        THEN s.candidate.tech_stack ELSE NOT_AVAILABLE
      questions_md ==
        IF Len(s.latest_questions) > 0
        THEN s.latest_questions ELSE NO_QUESTIONS
      user_context ==
        CONTEXT_TECH \o tech_stack \o CONTEXT_SET \o questions_md
          \o CONTEXT_ASKED \o user_input \o CONTEXT_END
      s2 == create(s1, user_context, o)
  IN  IF o.kind = "raise"
      THEN [s |-> s2,
            result |-> FOLLOWUP_ERROR_HEAD \o o.etype \o FOLLOWUP_ERROR_TAIL]
      ELSE [s |-> s2, result |-> strip(o.content)]

answer_followup(s, user_input, o) ==
  LET s1 == [s EXCEPT !.followup_calls = @ + 1]
  IN  IF client = "None"
      THEN [s |-> s1, result |-> NO_CLIENT_REPLY]
      ELSE LET tech_stack ==
                 IF "tech_stack" \in DOMAIN s.candidate
                 THEN s.candidate.tech_stack ELSE NOT_AVAILABLE
               questions_md ==
                 IF Len(s.latest_questions) > 0
                 THEN s.latest_questions ELSE NO_QUESTIONS
               user_context ==
                 CONTEXT_TECH \o tech_stack \o CONTEXT_SET \o questions_md
                   \o CONTEXT_ASKED \o user_input \o CONTEXT_END
               s2 == create(s1, user_context, o)
           IN  IF o.kind = "raise"
               THEN [s |-> s2,
                     result |-> FOLLOWUP_ERROR_HEAD \o o.etype
                                  \o FOLLOWUP_ERROR_TAIL]
               ELSE [s |-> s2, result |-> strip(o.content)]

\* Variant: closing the contact form leads back to the intro.  C12 fails
\* for it.
render_contact_form_to_intro(s, t) ==
  LET s1 == widget(s, "contact_form")
      s2 == IF t.widget = "contact_form"
            THEN IF \/ Len(t.contact.name) = 0
                    \/ Len(t.contact.email) = 0
                    \/ Len(t.contact.message) = 0
                 THEN notice(fired(s1, "contact_form"), "fill_all_fields")
                 ELSE [notice(fired(s1, "contact_form"), "query_received")
                         EXCEPT !.show_contact = FALSE]
            ELSE s1
      s3 == widget(s2, "close")
  IN  IF t.widget = "close"
      THEN [fired(s3, "close") EXCEPT !.show_contact = FALSE,
                                      !.view = "intro"]
      ELSE s3

render_contact_form(s, t) ==
  LET s1 == widget(s, "contact_form")
      s2 == IF t.widget = "contact_form"
            THEN IF \/ Len(t.contact.name) = 0
                    \/ Len(t.contact.email) = 0
                    \/ Len(t.contact.message) = 0
                 THEN notice(fired(s1, "contact_form"), "fill_all_fields")
                 ELSE [notice(fired(s1, "contact_form"), "query_received")
                         EXCEPT !.show_contact = FALSE]
            ELSE s1
      s3 == widget(s2, "close")
  IN  IF t.widget = "close"
      THEN [fired(s3, "close") EXCEPT !.show_contact = FALSE]
      ELSE s3

render_intro(s, t) ==
  LET s1 == widget(s, "contact_intro")
      s2 == IF t.widget = "contact_intro"
            THEN [fired(s1, "contact_intro") EXCEPT !.show_contact = TRUE]
            ELSE s1
      s3 == widget(s2, "acknowledge")
  IN  IF t.widget = "acknowledge"
      THEN LET s4 == [fired(s3, "acknowledge") EXCEPT !.view = "chat"]
           IN  IF Len(s4.history_messages) = 0
               THEN add_history(s4, "assistant", GREETING)
               ELSE s4
      ELSE s3

\* Variant: the phone is checked before the email.  C21 fails for it.
form_error_phone_first(f) ==
  IF Len(f.full_name) = 0 \/ Len(f.email) = 0 \/ Len(f.tech_stack) = 0
  THEN "required_fields"
  ELSE IF Len(f.phone) > 0 /\ (~isdigit(f.phone) \/ Len(f.phone) # 10)
  THEN "phone_format"
  ELSE IF ~endswith(lower(f.email), GMAIL_SUFFIX)
  THEN "email_domain"
  ELSE IF ~looks_like_tech_stack(f.tech_stack)
  THEN "tech_stack"
  ELSE "none"

\* Variant: the phone check forgets the length.  C6 fails for it.
form_error_any_length(f) ==
  IF Len(f.full_name) = 0 \/ Len(f.email) = 0 \/ Len(f.tech_stack) = 0
  THEN "required_fields"
  ELSE IF ~endswith(lower(f.email), GMAIL_SUFFIX)
  THEN "email_domain"
  ELSE IF Len(f.phone) > 0 /\ ~isdigit(f.phone)
  THEN "phone_format"
  ELSE IF ~looks_like_tech_stack(f.tech_stack)
  THEN "tech_stack"
  ELSE "none"

\* Variant: the email is compared without lower().  C7 fails for it.
form_error_case_sensitive(f) ==
  IF Len(f.full_name) = 0 \/ Len(f.email) = 0 \/ Len(f.tech_stack) = 0
  THEN "required_fields"
  ELSE IF ~endswith(f.email, GMAIL_SUFFIX)
  THEN "email_domain"
  ELSE IF Len(f.phone) > 0 /\ (~isdigit(f.phone) \/ Len(f.phone) # 10)
  THEN "phone_format"
  ELSE IF ~looks_like_tech_stack(f.tech_stack)
  THEN "tech_stack"
  ELSE "none"

\* the if / elif chain of app.py:426-444: the notice of the first check
\* that fails, "none" when the form passes them all
form_error(f) ==
  IF Len(f.full_name) = 0 \/ Len(f.email) = 0 \/ Len(f.tech_stack) = 0
  THEN "required_fields"
  ELSE IF ~endswith(lower(f.email), GMAIL_SUFFIX)
  THEN "email_domain"
  ELSE IF Len(f.phone) > 0 /\ (~isdigit(f.phone) \/ Len(f.phone) # 10)
  THEN "phone_format"
  ELSE IF ~looks_like_tech_stack(f.tech_stack)
  THEN "tech_stack"
  ELSE "none"

\* Variant: a later submission renews the questions and keeps the first
\* candidate.  C20 fails for it.
candidate_form_submitted_keeping_first(s, f, o) ==
  IF form_error(f) # "none"
  THEN notice(s, form_error(f))
  ELSE LET s1 == IF s.candidate # EMPTY_DICT THEN s
                 ELSE [s EXCEPT !.candidate =
                         [full_name |-> f.full_name, email |-> f.email,
                          phone |-> f.phone, years_experience |-> f.years_exp,
                          desired_position |-> f.desired_pos,
                          location |-> f.location,
                          tech_stack |-> f.tech_stack]]
           s2 == add_history(s1, "assistant",
                             GOT_IT_HEAD \o f.full_name \o GOT_IT_MID
                               \o f.tech_stack \o GOT_IT_TAIL)
           g  == generate_technical_questions_markdown(s2, f.tech_stack, o)
       IN  [g.s EXCEPT !.latest_questions = g.result,
                       !.stage = "questions",
                       !.seen_questions = TRUE]

\* app.py:424-469, the body of "if submitted:"
candidate_form_submitted(s, f, o) ==
  IF form_error(f) # "none"
  THEN notice(s, form_error(f))
  ELSE LET s1 == [s EXCEPT !.candidate =
                      [full_name |-> f.full_name, email |-> f.email,
                       phone |-> f.phone, years_experience |-> f.years_exp,
                       desired_position |-> f.desired_pos,
                       location |-> f.location,
                       tech_stack |-> f.tech_stack]]
           s2 == add_history(s1, "assistant",
                             GOT_IT_HEAD \o f.full_name \o GOT_IT_MID
                               \o f.tech_stack \o GOT_IT_TAIL)
           g  == generate_technical_questions_markdown(s2, f.tech_stack, o)
       IN  [g.s EXCEPT !.latest_questions = g.result,
                       !.stage = "questions",
                       !.seen_questions = TRUE]

\* Variant: an out-of-scope message gets no reply.  C19 fails for it.
chat_input_received_silent_refusal(s, user_input, o) ==
  LET s1 == add_chat(s, "user", user_input)
  IN  IF is_end_keyword(user_input)
      THEN [add_chat(s1, "assistant", goodbye) EXCEPT !.stage = "ended"]
      ELSE IF s1.stage = "ended"
      THEN add_chat(s1, "assistant", WRAPPED_UP_NOTICE)
      ELSE IF s1.stage = "form"
      THEN add_chat(s1, "assistant", FILL_FORM_FIRST)
      ELSE IF s1.stage = "questions"
      THEN IF is_out_of_scope(user_input)
           THEN s1
           ELSE LET a == answer_followup(s1, user_input, o)
                IN  add_chat(a.s, "assistant", a.result)
      ELSE s1

\* Variant: the stage is looked at first, the closing phrases in stage
\* "questions" only and after the out-of-scope check.  C18 fails for it.
chat_input_received_stage_first(s, user_input, o) ==
  LET s1 == add_chat(s, "user", user_input)
  IN  IF s1.stage = "ended"
      THEN add_chat(s1, "assistant", WRAPPED_UP_NOTICE)
      ELSE IF s1.stage = "form"
      THEN add_chat(s1, "assistant", FILL_FORM_FIRST)
      ELSE IF is_out_of_scope(user_input)
      THEN add_chat(s1, "assistant", OUT_OF_SCOPE_REPLY)
      ELSE IF is_end_keyword(user_input)
      THEN [add_chat(s1, "assistant", goodbye) EXCEPT !.stage = "ended"]
      ELSE LET a == answer_followup(s1, user_input, o)
           IN  add_chat(a.s, "assistant", a.result)

\* Variant: the goodbye also clears the candidate.  C5 fails for it.
chat_input_received_clearing(s, user_input, o) ==
  LET s1 == add_chat(s, "user", user_input)
  IN  IF is_end_keyword(user_input)
      THEN [add_chat(s1, "assistant", goodbye)
              EXCEPT !.stage = "ended", !.candidate = EMPTY_DICT]
      ELSE IF s1.stage = "ended"
      THEN add_chat(s1, "assistant", WRAPPED_UP_NOTICE)
      ELSE IF s1.stage = "form"
      THEN add_chat(s1, "assistant", FILL_FORM_FIRST)
      ELSE IF s1.stage = "questions"
      THEN IF is_out_of_scope(user_input)
           THEN add_chat(s1, "assistant", OUT_OF_SCOPE_REPLY)
           ELSE LET a == answer_followup(s1, user_input, o)
                IN  add_chat(a.s, "assistant", a.result)
      ELSE s1

\* Variant: no out-of-scope check in stage "questions".  C9 fails for it.
chat_input_received_any_topic(s, user_input, o) ==
  LET s1 == add_chat(s, "user", user_input)
  IN  IF is_end_keyword(user_input)
      THEN [add_chat(s1, "assistant", goodbye) EXCEPT !.stage = "ended"]
      ELSE IF s1.stage = "ended"
      THEN add_chat(s1, "assistant", WRAPPED_UP_NOTICE)
      ELSE IF s1.stage = "form"
      THEN add_chat(s1, "assistant", FILL_FORM_FIRST)
      ELSE IF s1.stage = "questions"
      THEN LET a == answer_followup(s1, user_input, o)
           IN  add_chat(a.s, "assistant", a.result)
      ELSE s1

\* app.py:490-538, the body of "if user_input:"
chat_input_received(s, user_input, o) ==
  LET s1 == add_chat(s, "user", user_input)
  IN  IF is_end_keyword(user_input)
      THEN [add_chat(s1, "assistant", goodbye) EXCEPT !.stage = "ended"]
      ELSE IF s1.stage = "ended"
      THEN add_chat(s1, "assistant", WRAPPED_UP_NOTICE)
      ELSE IF s1.stage = "form"
      THEN add_chat(s1, "assistant", FILL_FORM_FIRST)
      ELSE IF s1.stage = "questions"
      THEN IF is_out_of_scope(user_input)
           THEN add_chat(s1, "assistant", OUT_OF_SCOPE_REPLY)
           ELSE LET a == answer_followup(s1, user_input, o)
                IN  add_chat(a.s, "assistant", a.result)
      ELSE s1

\* Variant: the candidate form is drawn at every stage.  C4 fails for it.
render_chat_form_always(s, t, o) ==
  LET s1 == widget(s, "contact_chat")
      s2 == IF t.widget = "contact_chat"
            THEN [fired(s1, "contact_chat") EXCEPT !.show_contact = TRUE]
            ELSE s1
      s3 == IF t.widget = "candidate_form"
            THEN candidate_form_submitted(
                   fired(widget(s2, "candidate_form"), "candidate_form"),
                   t.form, o)
            ELSE widget(s2, "candidate_form")
      s4 == widget(s3, "chat_input")
  IN  IF t.widget = "chat_input" /\ Len(t.text) > 0
      THEN chat_input_received(fired(s4, "chat_input"), t.text, o)
      ELSE s4

\* app.py:363-540
render_chat(s, t, o) ==
  LET s1 == widget(s, "contact_chat")
      s2 == IF t.widget = "contact_chat"
            THEN [fired(s1, "contact_chat") EXCEPT !.show_contact = TRUE]
            ELSE s1
      s3 == IF s2.stage \in {"form", "questions"}
            THEN IF t.widget = "candidate_form"
                 THEN candidate_form_submitted(
                        fired(widget(s2, "candidate_form"), "candidate_form"),
                        t.form, o)
                 ELSE widget(s2, "candidate_form")
            ELSE s2
      s4 == widget(s3, "chat_input")
  IN  IF t.widget = "chat_input" /\ Len(t.text) > 0
      THEN chat_input_received(fired(s4, "chat_input"), t.text, o)
      ELSE s4

\* Variant: the run goes on after the contact form.  C16 fails for it.
Main_without_stop(s, t, o) ==
  LET s1 == IF s.show_contact THEN render_contact_form(s, t) ELSE s
  IN  IF s1.view = "intro"
      THEN render_intro(s1, t)
      ELSE render_chat(s1, t, o)

\* app.py:546-552; st.stop() ends the run after the contact form
Main(s, t, o) ==
  IF s.show_contact
  THEN render_contact_form(s, t)
  ELSE IF s.view = "intro"
  THEN render_intro(s, t)
  ELSE render_chat(s, t, o)

(***************************************************************************)
(* The state machine                                                       *)
(***************************************************************************)
\* The first run of the script of a session: app.py:14-24 sets client,
\* app.py:57-76 the session state, and the intro is drawn.
Init ==
  /\ client \in {"None", "Groq"}
  /\ view = "intro"
  /\ stage = "form"
  /\ history_messages = << >>
  /\ chat_messages = << >>
  /\ candidate = EMPTY_DICT
  /\ latest_questions = EMPTY_STR
  /\ show_contact = FALSE
  /\ rendered = {"contact_intro", "acknowledge"}
  /\ notices = startup_notices
  /\ trigger = Click("none")
  /\ handled = "none"
  /\ request = EMPTY_STR
  /\ response = NO_OUTCOME
  /\ gen_calls = 0
  /\ followup_calls = 0
  /\ net_calls = 0
  /\ seen_questions = FALSE

\* the run's result becomes the state the next run starts from
Commit(s, t) ==
  /\ view' = s.view
  /\ stage' = s.stage
  /\ history_messages' = s.history_messages
  /\ chat_messages' = s.chat_messages
  /\ candidate' = s.candidate
  /\ latest_questions' = s.latest_questions
  /\ show_contact' = s.show_contact
  /\ rendered' = s.rendered
  /\ notices' = s.notices
  /\ trigger' = t
  /\ handled' = s.handled
  /\ request' = s.request
  /\ response' = s.response
  /\ gen_calls' = s.gen_calls
  /\ followup_calls' = s.followup_calls
  /\ net_calls' = s.net_calls
  /\ seen_questions' = s.seen_questions
  /\ client' = client

\* One rerun of the script, caused by interaction t.  The remote service
\* answers with any outcome; a run that does not call it is the same run
\* under every outcome.
Rerun(t) ==
  \E dry \in {Main(Session, t, NO_OUTCOME)} :
     IF dry.net_calls = net_calls
     THEN Commit(dry, t)
     ELSE \E o \in Outcomes : \E s \in {Main(Session, t, o)} : Commit(s, t)

Acknowledge ==
  /\ "acknowledge" \in rendered
  /\ Rerun(Click("acknowledge"))

OpenContactIntro ==
  /\ "contact_intro" \in rendered
  /\ Rerun(Click("contact_intro"))

OpenContactChat ==
  /\ "contact_chat" \in rendered
  /\ Rerun(Click("contact_chat"))

SubmitContact ==
  /\ "contact_form" \in rendered
  /\ \E c \in ContactForms :
        Rerun([Click("contact_form") EXCEPT !.contact = c])

CloseContact ==
  /\ "close" \in rendered
  /\ Rerun(Click("close"))

SubmitProfile ==
  /\ "candidate_form" \in rendered
  /\ gen_calls < MaxSubmits
  /\ \E f \in Forms : Rerun([Click("candidate_form") EXCEPT !.form = f])

SendChat ==
  /\ "chat_input" \in rendered
  /\ Len(chat_messages) < 2 * MaxChat
  /\ \E text \in ChatTexts :
        Rerun([Click("chat_input") EXCEPT !.text = text])

Next ==
  \/ Acknowledge
  \/ OpenContactIntro
  \/ OpenContactChat
  \/ SubmitContact
  \/ CloseContact
  \/ SubmitProfile
  \/ SendChat

Spec == Init /\ [][Next]_vars

\* The candidate form alone, submitted with every combination of the field
\* values above.
SubmitAnyProfile ==
  /\ "candidate_form" \in rendered
  /\ gen_calls < MaxSubmits
  /\ \E f \in AllForms : Rerun([Click("candidate_form") EXCEPT !.form = f])

NextForm ==
  \/ Acknowledge
  \/ SubmitAnyProfile

SpecForm == Init /\ [][NextForm]_vars

\* The chat box alone, before any profile is submitted, with every text of
\* AllChatTexts.
SendAnyChat ==
  /\ "chat_input" \in rendered
  /\ Len(chat_messages) < 2 * MaxChat
  /\ \E text \in AllChatTexts :
        Rerun([Click("chat_input") EXCEPT !.text = text])

NextChat ==
  \/ Acknowledge
  \/ SendAnyChat

SpecChat == Init /\ [][NextChat]_vars

TypeOK ==
  /\ view \in {"intro", "chat"}
  /\ stage \in {"form", "questions", "ended"}
  /\ show_contact \in BOOLEAN
  /\ client \in {"None", "Groq"}
  /\ seen_questions \in BOOLEAN
  /\ gen_calls \in 0..MaxSubmits
  /\ followup_calls \in 0..MaxChat
  /\ net_calls \in 0..(MaxSubmits + MaxChat)
  /\ response \in Outcomes \cup {NO_OUTCOME}

(***************************************************************************)
(* Properties.  In a step, the unprimed variables are the session state    *)
(* the run starts from; handled' names the handler the run executed and    *)
(* trigger' carries the values the user entered.  A chat message or a      *)
(* profile submission is received when the run reaches its widget: an      *)
(* interaction made while show_contact is set, or with a form the run no   *)
(* longer draws, is dropped by the script and is no input of any handler.  *)
(***************************************************************************)
Turn(role, content) == [role |-> role, content |-> content]

\* the run appended the user's message and one assistant reply to the chat
Answered(text, reply) ==
  chat_messages' =
    chat_messages \o << Turn("user", text), Turn("assistant", reply) >>

NoGatewayCall == UNCHANGED << gen_calls, followup_calls, net_calls >>

ChatReceived == handled' = "chat_input"

ProfileSubmitted == handled' = "candidate_form"

\* the acceptance conditions as the specification words them
Passes(f) ==
  /\ f.full_name # EMPTY_STR
  /\ f.email # EMPTY_STR
  /\ f.tech_stack # EMPTY_STR
  /\ endswith(lower(f.email), GMAIL_SUFFIX)
  /\ \/ f.phone = EMPTY_STR
     \/ Len(f.phone) = 10 /\ \A i \in 1..Len(f.phone) : f.phone[i] \in DIGITS
  /\ looks_like_tech_stack(f.tech_stack)

\* the CandidateProfile holding the submitted fields
ProfileOf(f) ==
  [full_name |-> f.full_name, email |-> f.email, phone |-> f.phone,
   years_experience |-> f.years_exp, desired_position |-> f.desired_pos,
   location |-> f.location, tech_stack |-> f.tech_stack]

\* C1: in every reachable state, stage is "questions" or "ended" only if
\* candidate is set.
C1_StageImpliesCandidate ==
  stage \in {"questions", "ended"} => candidate # EMPTY_DICT

\* C2: stage changes only from "form" to "questions", by a validated
\* profile submission, and from "questions" to "ended", by a chat input
\* that satisfies is_end_keyword.
C2_OnlyTwoTransitions ==
  [][stage' # stage =>
       \/ /\ stage = "form" /\ stage' = "questions"
          /\ ProfileSubmitted /\ Passes(trigger'.form)
       \/ /\ stage = "questions" /\ stage' = "ended"
          /\ ChatReceived /\ is_end_keyword(trigger'.text)]_vars

\* C3: once stage is "ended", every chat input received, whatever its text,
\* is answered with the "session already wrapped up" notice.
C3_EndedAlwaysNotice ==
  [][(stage = "ended" /\ ChatReceived) =>
       Answered(trigger'.text, WRAPPED_UP_NOTICE)]_vars

\* C4: once stage is "ended", no later run calls
\* generate_technical_questions_markdown or answer_followup, nor the
\* remote service.
C4_NoGatewayAfterEnded == [][stage = "ended" => NoGatewayCall]_vars

\* C4 witness: the session has ended after questions were generated, and a
\* later run was caused by the candidate form still on the page.
C4_Witness ==
  /\ stage = "ended"
  /\ gen_calls > 0
  /\ trigger.widget = "candidate_form"
  /\ ~show_contact

\* C5 as stated: once candidate is set, no later run changes it.
C5_CandidateNeverChanges ==
  [][candidate # EMPTY_DICT => candidate' = candidate]_vars

\* C5 as amended: once candidate is set, only another accepted profile
\* submission changes it; that happens in stage "questions" only and
\* replaces candidate by the fields submitted.
C5_CandidateChangesOnlyByResubmission ==
  [][(candidate # EMPTY_DICT /\ candidate' # candidate) =>
       /\ stage = "questions"
       /\ ProfileSubmitted
       /\ Passes(trigger'.form)
       /\ candidate' = ProfileOf(trigger'.form)]_vars

\* C5 witness: a second submission was accepted, with a tech stack other
\* than the one of the first (the history log keeps both), and candidate
\* holds the fields of the second.
C5_Witness ==
  /\ gen_calls = 2
  /\ handled = "candidate_form"
  /\ candidate = ProfileOf(trigger.form)
  /\ Len(history_messages) = 3
  /\ history_messages[2].content # history_messages[3].content

\* C6: a profile submission that fails a validation check changes neither
\* stage, view, candidate, latest_questions, history nor chat, and makes no
\* Gateway call.
C6_RejectedSubmissionChangesNothing ==
  [][(ProfileSubmitted /\ ~Passes(trigger'.form)) =>
       /\ UNCHANGED << stage, view, candidate, latest_questions,
                       history_messages, chat_messages >>
       /\ NoGatewayCall]_vars

\* C6 witness: a submission with a malformed phone number was rejected
\* after an earlier one had been accepted.
C6_Witness ==
  /\ handled = "candidate_form"
  /\ ~Passes(trigger.form)
  /\ notices = << "phone_format" >>
  /\ stage = "questions"

\* C7: a profile submission received in stage "form" is accepted exactly
\* when it passes the checks; then stage is "questions", candidate holds
\* the submitted fields and latest_questions is non-empty, whatever the
\* remote service did.
C7_AcceptedExactlyWhenValid ==
  [][(stage = "form" /\ ProfileSubmitted) =>
       IF Passes(trigger'.form)
       THEN /\ stage' = "questions"
            /\ candidate' = ProfileOf(trigger'.form)
            /\ latest_questions' # EMPTY_STR
       ELSE stage' = "form"]_vars

\* C7 witness: a submission was accepted in stage "form" although the
\* remote service answered without a section marker.
C7_Witness ==
  /\ stage = "questions"
  /\ handled = "candidate_form"
  /\ gen_calls = 1
  /\ notices = << "unexpected_format" >>
  /\ candidate = ProfileOf(trigger.form)
  /\ latest_questions = _generic_fallback_markdown

\* C8: latest_questions is non-empty if and only if stage has been
\* "questions" at some point of the session.
C8_QuestionsIffStageReached ==
  (latest_questions # EMPTY_STR) <=> seen_questions

\* C8 witness: the session went through "questions" and has ended, and the
\* questions are still there.
C8_Witness ==
  /\ stage = "ended"
  /\ seen_questions
  /\ latest_questions # EMPTY_STR

\* the replies answer_followup can give to user_input in this state
FollowupReplies(user_input) ==
  {answer_followup(Session, user_input, o).result : o \in Outcomes}

\* C9: in stage "questions", a chat message that is neither end-intent nor
\* out-of-scope makes exactly one answer_followup call, whose result is
\* the assistant's reply; one that is out-of-scope and not end-intent gets
\* the static refusal and no Gateway call; stage stays "questions".
C9_QuestionsStageRouting ==
  [][(stage = "questions" /\ ChatReceived
        /\ ~is_end_keyword(trigger'.text)) =>
       /\ stage' = "questions"
       /\ IF is_out_of_scope(trigger'.text)
          THEN /\ Answered(trigger'.text, OUT_OF_SCOPE_REPLY)
               /\ NoGatewayCall
          ELSE /\ followup_calls' = followup_calls + 1
               /\ gen_calls' = gen_calls
               /\ net_calls' = net_calls + (IF client = "None" THEN 0 ELSE 1)
               /\ \E reply \in FollowupReplies(trigger'.text) :
                     Answered(trigger'.text, reply)]_vars

\* C9 witness: a follow-up was answered by the remote service.
C9_Witness ==
  /\ stage = "questions"
  /\ handled = "chat_input"
  /\ followup_calls = 1
  /\ net_calls = gen_calls + 1
  /\ chat_messages[Len(chat_messages)].content = ANSWER_PLAIN

\* C10: every chat message received in stage "form" is answered with the
\* prompt to fill out the form first, leaves stage at "form" and makes no
\* Gateway call.
C10_FormStageChat ==
  [][(stage = "form" /\ ChatReceived) =>
       /\ Answered(trigger'.text, FILL_FORM_FIRST)
       /\ stage' = "form"
       /\ NoGatewayCall]_vars

\* a is what b started with
IsPrefix(a, b) == Len(a) <= Len(b) /\ SubSeq(b, 1, Len(a)) = a

\* C11: after every run, the previous history log is a prefix of the new
\* one and the previous chat log a prefix of the new one; add_history
\* leaves the chat log alone and add_chat the history log, so no run that
\* extends one log changes the other.
C11_LogsAppendOnly ==
  [][/\ IsPrefix(history_messages, history_messages')
     /\ IsPrefix(chat_messages, chat_messages')
     /\ add_history(Session, "assistant", GREETING).chat_messages
          = chat_messages
     /\ add_chat(Session, "user", CHAT_HI).history_messages
          = history_messages
     /\ history_messages' # history_messages =>
          chat_messages' = chat_messages
     /\ chat_messages' # chat_messages =>
          history_messages' = history_messages]_vars

\* C11 witness: both logs have grown several times, the history log last,
\* after the chat log had turns in it.
C11_Witness ==
  /\ Len(history_messages) = 3
  /\ Len(chat_messages) >= 2
  /\ handled = "candidate_form"
  /\ stage = "questions"

\* C12: view changes only from "intro" to "chat", and only in the run that
\* handles the acknowledgement button; once view is "chat" every later run
\* leaves it "chat".
C12_ViewOnlyForward ==
  [][/\ view' # view =>
          /\ view = "intro"
          /\ view' = "chat"
          /\ handled' = "acknowledge"
     /\ view = "chat" => view' = "chat"]_vars

\* C12 witness: after the acknowledgement the session ran to its end, the
\* contact form was opened and closed again, and view is "chat".
C12_Witness ==
  /\ view = "chat"
  /\ stage = "ended"
  /\ seen_questions
  /\ handled = "close"
  /\ ~show_contact

\* the run called generate_technical_questions_markdown / answer_followup
GenerateCalled == gen_calls' = gen_calls + 1

FollowupCalled == followup_calls' = followup_calls + 1

\* the content of the last turn of the chat log
LastReply == chat_messages[Len(chat_messages)].content

\* C13: when client is None, no run makes a remote call, every call of
\* generate_technical_questions_markdown returns the generic fallback
\* markdown and every call of answer_followup returns the fixed reply of
\* app.py:202-206.
C13_NoCredentialShortCircuit ==
  [][client = "None" =>
       /\ net_calls' = net_calls
       /\ GenerateCalled =>
            latest_questions' = _generic_fallback_markdown
       /\ FollowupCalled =>
            /\ LastReply' = NO_CLIENT_REPLY
            /\ Answered(trigger'.text, NO_CLIENT_REPLY)]_vars

\* C13 witness: without a client, questions were generated and a follow-up
\* was answered, both without a remote call.
C13_Witness ==
  /\ client = "None"
  /\ gen_calls >= 1
  /\ followup_calls >= 1
  /\ net_calls = 0
  /\ latest_questions = _generic_fallback_markdown
  /\ handled = "chat_input"
  /\ LastReply = NO_CLIENT_REPLY

\* the run's call of generate_technical_questions_markdown made the remote
\* call
GenerateCalledRemote == GenerateCalled /\ net_calls' = net_calls + 1

\* the remote call failed, or its text has no section marker
Unusable(o) == o.kind = "raise" \/ ~Contains(o.content, SECTION_MARKER)

FollowupFailed ==
  FollowupCalled /\ (client = "None" \/ response'.kind = "raise")

\* C15 as stated: on every failure answer_followup returns one and the
\* same string, which is not the fallback of the question generation.  The
\* string it returns without a credential is NO_CLIENT_REPLY (C13), so
\* that is the string every failure would have to return.
C15_OneFixedApology ==
  [][FollowupFailed =>
       /\ LastReply' = NO_CLIENT_REPLY
       /\ LastReply' # _generic_fallback_markdown]_vars

\* C15 as amended: on a failure answer_followup returns a string fixed by
\* the kind of the failure: NO_CLIENT_REPLY without a credential, and for
\* an exception a fixed text that embeds the name of the exception's
\* type; none of them is the fallback of the question generation.
C15_ApologyPerKindOfFailure ==
  [][FollowupFailed =>
       /\ LastReply' =
            IF client = "None" THEN NO_CLIENT_REPLY
            ELSE FOLLOWUP_ERROR_HEAD \o response'.etype
                   \o FOLLOWUP_ERROR_TAIL
       /\ LastReply' # _generic_fallback_markdown]_vars

\* C15 witness: two follow-ups failed with exceptions of different types
\* and got different replies, neither the one given without a credential.
C15_Witness ==
  /\ handled = "chat_input"
  /\ followup_calls = 2
  /\ response.kind = "raise"
  /\ response.etype = INDEX_ERROR
  /\ Len(chat_messages) = 4
  /\ chat_messages[2].content =
       FOLLOWUP_ERROR_HEAD \o RATE_LIMIT_ERROR \o FOLLOWUP_ERROR_TAIL
  /\ chat_messages[4].content =
       FOLLOWUP_ERROR_HEAD \o INDEX_ERROR \o FOLLOWUP_ERROR_TAIL
  /\ chat_messages[4].content # NO_CLIENT_REPLY

\* C16: a run that sets or clears show_contact changes neither stage nor
\* view; a run that starts with show_contact set handles the contact form
\* and its close button only, changes neither stage, view, candidate,
\* latest_questions, history nor chat, and makes no Gateway call.
C16_OverlayOrthogonal ==
  [][/\ show_contact' # show_contact => UNCHANGED << stage, view >>
     /\ show_contact =>
          /\ handled' \in {"none", "contact_form", "close"}
          /\ rendered' = {"contact_form", "close"}
          /\ UNCHANGED << stage, view, candidate, latest_questions,
                          history_messages, chat_messages >>
          /\ NoGatewayCall]_vars

\* C16 witness: with questions generated, the contact button was pressed
\* and then a chat message sent from the page still showing; the run drew
\* the contact form only and the message went nowhere.
C16_Witness ==
  /\ show_contact
  /\ stage = "questions"
  /\ trigger.widget = "chat_input"
  /\ handled = "none"
  /\ rendered = {"contact_form", "close"}

\* the closing phrases as the specification lists them
END_INTENT_PHRASES ==
  {<< "b", "y", "e" >>,
   << "g", "o", "o", "d", "b", "y", "e" >>,
   << "q", "u", "i", "t" >>,
   << "e", "x", "i", "t" >>,
   << "s", "t", "o", "p" >>,
   << "t", "h", "a", "n", "k", " ", "y", "o", "u" >>,
   << "t", "h", "a", "n", "k", "s" >>}

\* the lower-cased text has one of the phrases as a substring
HasEndIntentPhrase(text) ==
  \E phrase \in END_INTENT_PHRASES :
     \E i \in 1..Len(text) : \E j \in i..Len(text) :
        lower(SubSeq(text, i, j)) = phrase

\* C17: for the text of every chat message, is_end_keyword is true if and
\* only if the lower-cased text contains one of the phrases bye, goodbye,
\* quit, exit, stop, thank you, thanks; the value is a function of the
\* text alone, so the handler takes the goodbye branch for exactly these
\* texts, in whatever state and however often the text is sent.
C17_EndIntentIffPhrase ==
  [][ChatReceived =>
       /\ is_end_keyword(trigger'.text) <=> HasEndIntentPhrase(trigger'.text)
       /\ Answered(trigger'.text, goodbye)
            <=> HasEndIntentPhrase(trigger'.text)]_vars

\* C17 witness: a text that misses "thank you" by a second space was not
\* taken for a goodbye, and one with STOP in capitals inside a word was.
C17_Witness ==
  /\ handled = "chat_input"
  /\ chat_messages =
       << Turn("user", CHAT_THANK_TWO_SPACES),
          Turn("assistant", FILL_FORM_FIRST),
          Turn("user", CHAT_NONSTOP),
          Turn("assistant", goodbye) >>

ChatAlternates ==
  /\ Len(chat_messages) % 2 = 0
  /\ \A i \in DOMAIN chat_messages :
        chat_messages[i].role = IF i % 2 = 1 THEN "user" ELSE "assistant"

\* C19: every run that handles a chat message appends exactly two turns to
\* the chat log, the user's message and then one assistant reply, and no
\* other run changes the log; so in every reachable state the log has even
\* length and alternates between user and assistant.
C19_ChatInPairs ==
  /\ []ChatAlternates
  /\ [][/\ ChatReceived =>
             /\ Len(chat_messages') = Len(chat_messages) + 2
             /\ IsPrefix(chat_messages, chat_messages')
             /\ chat_messages'[Len(chat_messages) + 1]
                  = Turn("user", trigger'.text)
             /\ chat_messages'[Len(chat_messages) + 2].role = "assistant"
        /\ chat_messages' # chat_messages => ChatReceived]_vars

\* C19 witness: the log holds two pairs, one answered by the out-of-scope
\* branch and one by the remote service.
C19_Witness ==
  /\ Len(chat_messages) = 4
  /\ stage = "questions"
  /\ chat_messages[1] = Turn("user", CHAT_JOKE)
  /\ chat_messages[2] = Turn("assistant", OUT_OF_SCOPE_REPLY)
  /\ chat_messages[3] = Turn("user", CHAT_HI)
  /\ chat_messages[4] = Turn("assistant", strip(ANSWER_BLANK))

\* latest_questions, when set, comes with a candidate and has a section
\* marker
QuestionsWellFormed ==
  latest_questions # EMPTY_STR =>
    /\ candidate # EMPTY_DICT
    /\ Contains(latest_questions, SECTION_MARKER)

\* the user prompt answer_followup builds from the session state
FollowupContext(user_input) ==
  CONTEXT_TECH \o candidate.tech_stack \o CONTEXT_SET \o latest_questions
    \o CONTEXT_ASKED \o user_input \o CONTEXT_END

\* C20: candidate and latest_questions are assigned by the same runs, those
\* of an accepted profile submission: such a run sets candidate to the
\* submitted fields and latest_questions to the result of
\* generate_technical_questions_markdown for that candidate's tech_stack,
\* and no other run changes either; latest_questions, when set, has a
\* "###"; and the prompt of every follow-up call holds the tech_stack of
\* the current candidate and the current latest_questions.
C20_CandidateAndQuestionsPaired ==
  /\ []QuestionsWellFormed
  /\ [][/\ GenerateCalled =>
             /\ ProfileSubmitted
             /\ candidate' = ProfileOf(trigger'.form)
             /\ latest_questions' =
                  generate_technical_questions_markdown(
                    Session, candidate'.tech_stack, response').result
             /\ net_calls' # net_calls =>
                  request' = USER_PROMPT_PREFIX \o candidate'.tech_stack
        /\ ~GenerateCalled => UNCHANGED << candidate, latest_questions >>
        /\ (FollowupCalled /\ net_calls' # net_calls) =>
             request' = FollowupContext(trigger'.text)]_vars

\* C20 witness: after a second accepted submission with another tech
\* stack, a follow-up was sent to the remote service with that tech stack
\* and the questions generated for it.
C20_Witness ==
  /\ gen_calls = 2
  /\ followup_calls = 1
  /\ net_calls = 3
  /\ handled = "chat_input"
  /\ Len(history_messages) = 3
  /\ history_messages[2].content # history_messages[3].content
  /\ candidate.tech_stack = TECH_SQL
  /\ latest_questions = strip(ANSWER_SECTIONS)
  /\ request = FollowupContext(trigger.text)

\* the four checks in the order of the specification
CHECKS_IN_ORDER ==
  << "required_fields", "email_domain", "phone_format", "tech_stack" >>

\* form f fails the check, taken on its own
Fails(f, check) ==
  CASE check = "required_fields" ->
         f.full_name = EMPTY_STR \/ f.email = EMPTY_STR
           \/ f.tech_stack = EMPTY_STR
    [] check = "email_domain" -> ~endswith(lower(f.email), GMAIL_SUFFIX)
    [] check = "phone_format" ->
         /\ f.phone # EMPTY_STR
         /\ ~(Len(f.phone) = 10 /\ \A i \in 1..Len(f.phone) :
                                      f.phone[i] \in DIGITS)
    [] check = "tech_stack" -> ~looks_like_tech_stack(f.tech_stack)

FailedChecks(f) ==
  {i \in DOMAIN CHECKS_IN_ORDER : Fails(f, CHECKS_IN_ORDER[i])}

\* the first check in the order that f fails
FirstFailing(f) ==
  CHECKS_IN_ORDER[CHOOSE i \in FailedChecks(f) :
                    \A j \in FailedChecks(f) : i <= j]

\* the validation errors among the notices of a run
ValidationErrors(ns) ==
  SelectSeq(ns, LAMBDA n : \E i \in DOMAIN CHECKS_IN_ORDER :
                              CHECKS_IN_ORDER[i] = n)

\* C21: a run that rejects a profile submission surfaces exactly one
\* validation error, that of the first check the form fails in the order
\* required fields, email domain, phone format, tech-stack plausibility,
\* and nothing else but the warning every run without a key starts with; a
\* run that accepts a submission surfaces no validation error.
C21_FirstFailingCheckOnly ==
  [][ProfileSubmitted =>
       IF FailedChecks(trigger'.form) # {}
       THEN /\ ValidationErrors(notices') = << FirstFailing(trigger'.form) >>
            /\ notices' = startup_notices \o << FirstFailing(trigger'.form) >>
       ELSE ValidationErrors(notices') = << >>]_vars

\* C21 witness: a submission with a foreign email address, letters in the
\* phone number and no technology in the tech stack was rejected with the
\* email error alone.
C21_Witness ==
  /\ handled = "candidate_form"
  /\ trigger.form.email = EMAIL_YAHOO
  /\ trigger.form.phone = PHONE_LETTERS
  /\ trigger.form.tech_stack = TECH_COOKING
  /\ Cardinality(FailedChecks(trigger.form)) = 3
  /\ ValidationErrors(notices) = << "email_domain" >>

=============================================================================
